---- MODULE Spec2Model ----
(***************************************************************************)
(* Model of the /calculate endpoint of src/main.py: the request schema     *)
(* (CalculateRequest), the handler calculate() and the coroutine           *)
(* calc_square(), run by asyncio.gather on one event loop.                 *)
(*                                                                         *)
(* Time is the reading of time.perf_counter(), counted in ticks;           *)
(* TicksPerCenti ticks make one hundredth of a second, the unit that       *)
(* round(x, 2) rounds to.  Delays are given in ticks as well.  The clock   *)
(* advances by the action Tick, which is the scheduling jitter of the      *)
(* event loop: before the units start, while they sleep, after a sleep is  *)
(* over and before gather returns.  The first steps of the tasks run back  *)
(* to back in one pass of the loop, which takes less than one tick.        *)
(*                                                                         *)
(* Field, HTTPException, asyncio and time, which main.py uses without      *)
(* importing them, are taken to be those of pydantic, fastapi and the      *)
(* standard library.  asyncio.sleep(d) returns once d has passed on the    *)
(* clock perf_counter reads, and at once for d <= 0.                       *)
(***************************************************************************)
EXTENDS Integers, Sequences, FiniteSets

\* ---- bounds of the model ----
MaxLen == 2
MaxDelay == 2
MaxTime == 3
TicksPerCenti == 2

\* largest finite float (sys.float_info.max), scaled to the model's numbers
FloatMax == 100

\* the numbers a request may carry; 11 ** 2 exceeds FloatMax
NumberValues == {-2, 3, 11}
\* the delays a request may carry; the schema has no lower bound on a delay
DelayValues == -1..MaxDelay

RECURSIVE SeqsUpTo(_, _)
SeqsUpTo(S, n) ==
  IF n = 0 THEN {<<>>}
  ELSE LET shorter == SeqsUpTo(S, n - 1)
       IN shorter \cup {Append(s, x) : s \in {t \in shorter : Len(t) = n - 1}, x \in S}

NumberLists == SeqsUpTo(NumberValues, MaxLen)
DelayLists == SeqsUpTo(DelayValues, MaxLen)

VARIABLES
  numbers,              \* data.numbers of the request
  delays,               \* data.delays of the request
  pc,                   \* "idle", "gathering" (handler awaits gather), "done"
  outcome,              \* "none", "200", "400", "422", "500"
  response,             \* the CalculateResponse returned, or NoResponse
  now,                  \* time.perf_counter()
  start_parallel,       \* calculate: start_parallel
  total_parallel_time,  \* calculate: total_parallel_time (unrounded)
  ustate,               \* per unit: "created", "sleeping", "done", "raised"
  ustart,               \* calc_square: start
  elapsed,              \* calc_square: elapsed (unrounded)
  result                \* per unit: the ResultItem returned, or NoResult

vars == <<numbers, delays, pc, outcome, response, now, start_parallel,
          total_parallel_time, ustate, ustart, elapsed, result>>

NoResponse == [kind |-> "none"]
NoResult == [kind |-> "none"]
NoTime == -1

Min(a, b) == IF a < b THEN a ELSE b

\* the units of the request: zip(data.numbers, data.delays)
Units == 1..Min(Len(numbers), Len(delays))

\* Field(..., min_items=1) on both lists
SchemaValidNumbersOnly(n, d) == Len(n) >= 1
SchemaValid(n, d) == Len(n) >= 1 /\ Len(d) >= 1

\* if len(data.numbers) != len(data.delays)
LengthMismatchShortNumbers(n, d) == Len(n) < Len(d)
LengthMismatch(n, d) == Len(n) # Len(d)

\* number ** 2 on floats: OverflowError when the result is out of range
SquareOverflows(n) == n * n > FloatMax
Square(n) == n * n

\* round(x, 2) for x >= 0: to the nearest hundredth, a tie to the even one
Round2(x) ==
  LET q == x \div TicksPerCenti
      r == x % TicksPerCenti
  IN IF 2 * r < TicksPerCenti THEN q * TicksPerCenti
     ELSE IF 2 * r > TicksPerCenti THEN (q + 1) * TicksPerCenti
     ELSE IF q % 2 = 0 THEN q * TicksPerCenti ELSE (q + 1) * TicksPerCenti

\* sum(data.delays)
RECURSIVE Sum(_)
Sum(s) == IF s = <<>> THEN 0 ELSE s[1] + Sum(Tail(s))

\* await asyncio.sleep(delay) has returned: the delay has passed since the
\* unit started (at once for a delay <= 0)
SleepOverAtOnce(i) == TRUE
SleepOver(i) == now >= ustart[i] + delays[i]

\* elapsed = time.perf_counter() - start
ElapsedWrongOrder(i) == ustart[i] - now
Elapsed(i) == now - ustart[i]

\* ResultItem(number=number, square=number ** 2, delay=delay, time=round(elapsed, 2))
ResultItem(number, delay, el) ==
  [kind |-> "item", number |-> number, square |-> Square(number),
   delay |-> delay, time |-> Round2(el)]

\* asyncio.gather(*tasks): waits for every unit
SomeDone == \E i \in Units : ustate[i] = "done"
AllDone == \A i \in Units : ustate[i] = "done"

\* asyncio.gather(*tasks): the results in the order of the arguments
\* the instant unit i finished, from its own two measurements
FinishTime(i) == ustart[i] + elapsed[i]
FinishedBefore(j, i) == FinishTime(j) < FinishTime(i) \/ (FinishTime(j) = FinishTime(i) /\ j < i)
CompletionOrderResults ==
  [k \in Units |->
    result[CHOOSE i \in Units : Cardinality({j \in Units : FinishedBefore(j, i)}) = k - 1]]
GatherResults == [i \in Units |-> result[i]]

\* total_parallel_time = time.perf_counter() - start_parallel
SumElapsed == Sum([i \in Units |-> elapsed[i]])
TotalParallelTime == now - start_parallel

\* parallel_faster_than_sequential = total_parallel_time < sequential_time
ParallelFasterFlipped(total, sequential_time) == total > sequential_time
ParallelFaster(total, sequential_time) == total < sequential_time

\* CalculateResponse(results=..., total_time=round(total_parallel_time, 2), ...)
CalculateResponseRounded(results, total) ==
  [kind |-> "response", results |-> results, total_time |-> Round2(total),
   parallel_faster_than_sequential |-> ParallelFaster(Round2(total), Sum(delays))]
CalculateResponse(results, total) ==
  [kind |-> "response", results |-> results, total_time |-> Round2(total),
   parallel_faster_than_sequential |-> ParallelFaster(total, Sum(delays))]

\* a request has arrived; nothing of it has been looked at yet
Init ==
  /\ numbers \in NumberLists
  /\ delays \in DelayLists
  /\ pc = "idle"
  /\ outcome = "none"
  /\ response = NoResponse
  /\ now = 0
  /\ start_parallel = NoTime
  /\ total_parallel_time = NoTime
  /\ ustate = <<>>
  /\ ustart = <<>>
  /\ elapsed = <<>>
  /\ result = <<>>

\* time passes while the request or one of its units is running
Tick ==
  /\ now < MaxTime
  /\ ~(\E i, j \in DOMAIN ustate : ustate[i] = "created" /\ ustate[j] # "created")
  /\ \/ pc = "gathering"
     \/ \E i \in DOMAIN ustate : ustate[i] \in {"created", "sleeping"}
  /\ now' = now + 1
  /\ UNCHANGED <<numbers, delays, pc, outcome, response, start_parallel,
                 total_parallel_time, ustate, ustart, elapsed, result>>

\* the request body fails the schema: the framework answers 422, calculate() is not called
RejectSchema ==
  /\ pc = "idle"
  /\ ~SchemaValid(numbers, delays)
  /\ pc' = "done"
  /\ outcome' = "422"
  /\ UNCHANGED <<numbers, delays, response, now, start_parallel, total_parallel_time,
                 ustate, ustart, elapsed, result>>

\* calculate(): raise HTTPException(status_code=400, ...)
RejectLength ==
  /\ pc = "idle"
  /\ SchemaValid(numbers, delays)
  /\ LengthMismatch(numbers, delays)
  /\ pc' = "done"
  /\ outcome' = "400"
  /\ UNCHANGED <<numbers, delays, response, now, start_parallel, total_parallel_time,
                 ustate, ustart, elapsed, result>>

\* calculate(): start_parallel, the list of coroutines, await asyncio.gather(*tasks)
StartCalculate ==
  /\ pc = "idle"
  /\ SchemaValid(numbers, delays)
  /\ ~LengthMismatch(numbers, delays)
  /\ pc' = "gathering"
  /\ start_parallel' = now
  /\ ustate' = [i \in Units |-> "created"]
  /\ ustart' = [i \in Units |-> NoTime]
  /\ elapsed' = [i \in Units |-> NoTime]
  /\ result' = [i \in Units |-> NoResult]
  /\ UNCHANGED <<numbers, delays, outcome, response, now, total_parallel_time>>

\* calc_square(): start = time.perf_counter(); await asyncio.sleep(delay).
\* The loop runs the first step of the tasks in the order gather created them.
UnitStart(i) ==
  /\ i \in DOMAIN ustate
  /\ ustate[i] = "created"
  /\ \A j \in 1..(i - 1) : ustate[j] # "created"
  /\ ustate' = [ustate EXCEPT ![i] = "sleeping"]
  /\ ustart' = [ustart EXCEPT ![i] = now]
  /\ UNCHANGED <<numbers, delays, pc, outcome, response, now, start_parallel,
                 total_parallel_time, elapsed, result>>

\* calc_square(): the sleep is over, elapsed is measured, the ResultItem is returned
UnitFinish(i) ==
  /\ i \in DOMAIN ustate
  /\ ustate[i] = "sleeping"
  /\ SleepOver(i)
  /\ ~SquareOverflows(numbers[i])
  /\ elapsed' = [elapsed EXCEPT ![i] = Elapsed(i)]
  /\ result' = [result EXCEPT ![i] = ResultItem(numbers[i], delays[i], Elapsed(i))]
  /\ ustate' = [ustate EXCEPT ![i] = "done"]
  /\ UNCHANGED <<numbers, delays, pc, outcome, response, now, start_parallel,
                 total_parallel_time, ustart>>

\* calc_square(): the sleep is over, number ** 2 raises OverflowError
UnitRaise(i) ==
  /\ i \in DOMAIN ustate
  /\ ustate[i] = "sleeping"
  /\ SleepOver(i)
  /\ SquareOverflows(numbers[i])
  /\ elapsed' = [elapsed EXCEPT ![i] = Elapsed(i)]
  /\ ustate' = [ustate EXCEPT ![i] = "raised"]
  /\ UNCHANGED <<numbers, delays, pc, outcome, response, now, start_parallel,
                 total_parallel_time, ustart, result>>

\* calculate(): gather returned the results; the response is built and returned
GatherReturn ==
  /\ pc = "gathering"
  /\ AllDone
  /\ total_parallel_time' = TotalParallelTime
  /\ response' = CalculateResponse(GatherResults, TotalParallelTime)
  /\ outcome' = "200"
  /\ pc' = "done"
  /\ UNCHANGED <<numbers, delays, now, start_parallel, ustate, ustart,
                 elapsed, result>>

\* calculate(): gather raised the exception of the first unit that failed;
\* the other units keep running, the request ends in a server error
GatherRaise ==
  /\ pc = "gathering"
  /\ \E i \in Units : ustate[i] = "raised"
  /\ outcome' = "500"
  /\ pc' = "done"
  /\ UNCHANGED <<numbers, delays, response, now, start_parallel, total_parallel_time,
                 ustate, ustart, elapsed, result>>

Next ==
  \/ Tick
  \/ RejectSchema
  \/ RejectLength
  \/ StartCalculate
  \/ \E i \in 1..MaxLen : UnitStart(i)
  \/ \E i \in 1..MaxLen : UnitFinish(i)
  \/ \E i \in 1..MaxLen : UnitRaise(i)
  \/ GatherReturn
  \/ GatherRaise

Spec == Init /\ [][Next]_vars

\* ---- vocabulary of the properties ----
Success == outcome = "200"
NonNegativeDelays == \A i \in DOMAIN delays : delays[i] >= 0
SomeNegativeDelay == \E i \in DOMAIN delays : delays[i] < 0
EmptyInput == Len(numbers) = 0 \/ Len(delays) = 0
UnequalLengths == Len(numbers) # Len(delays)
NoUnitStarted == \A i \in DOMAIN ustate : ustate[i] = "created"
Abs(x) == IF x < 0 THEN -x ELSE x
MaxOf(S) == CHOOSE x \in S : \A y \in S : y <= x
MaxDelayOf == MaxOf({delays[i] : i \in DOMAIN delays})
NonZeroDelays == {i \in DOMAIN delays : delays[i] # 0}
\* how late the run is against an ideal one: the worst unit's late start plus
\* oversleep, plus the time gather takes to return after the last unit finished
\* (the clock stands still once a successful request is answered)
Lateness ==
  MaxOf({(ustart[i] - start_parallel) + (elapsed[i] - delays[i]) : i \in Units})
  + (now - MaxOf({FinishTime(i) : i \in Units}))

\* C1: for a request with non-empty lists of equal length and non-negative
\* delays, the success response has len(numbers) results and results[i] carries
\* numbers[i], numbers[i] ** 2 and delays[i], whatever order the units finished in.
C1_ResultsMirrorInput ==
  (Success /\ NonNegativeDelays) =>
    /\ DOMAIN response.results = 1..Len(numbers)
    /\ \A i \in 1..Len(numbers) :
         /\ response.results[i].number = numbers[i]
         /\ response.results[i].square = numbers[i] * numbers[i]
         /\ response.results[i].delay = delays[i]

\* C1 witness: a success response of two different numbers whose second unit
\* finished before the first.
C1_LaterUnitFinishedFirst ==
  /\ Success /\ NonNegativeDelays
  /\ Len(numbers) = 2
  /\ numbers[1] # numbers[2]
  /\ FinishTime(2) < FinishTime(1)

\* C2 as claimed: lists of unequal length always end in the 400 error, no unit
\* is started and no response with results is produced.
C2_UnequalLengthsGet400 ==
  UnequalLengths =>
    /\ ustate = <<>>
    /\ response = NoResponse
    /\ pc = "done" => outcome = "400"

\* C2 amended: lists of unequal length never start a unit and never get a
\* response with results; the request ends in the 400 error when both lists are
\* non-empty and in the schema's 422 error when one of them is empty.
C2_UnequalLengthsRejected ==
  UnequalLengths =>
    /\ ustate = <<>>
    /\ response = NoResponse
    /\ pc = "done" =>
         outcome = (IF Len(numbers) >= 1 /\ Len(delays) >= 1 THEN "400" ELSE "422")

\* C2 witness: a request of two numbers and one delay has ended in the 400 error.
C2_Rejected400 ==
  /\ pc = "done" /\ outcome = "400"
  /\ Len(numbers) = 2 /\ Len(delays) = 1

\* C3 as claimed: the boolean of a success response equals the comparison of
\* the total_time carried in that response with sum(delays).
C3_BooleanMatchesResponseTotal ==
  Success =>
    response.parallel_faster_than_sequential = (response.total_time < Sum(delays))

\* C3 amended: the boolean of a success response equals the comparison of the
\* response's total_time with sum(delays) whenever the two differ by more than
\* half a hundredth; closer than that the boolean follows the unrounded time.
C3_BooleanMatchesOutsideRounding ==
  (Success /\ 2 * Abs(response.total_time - Sum(delays)) > TicksPerCenti) =>
    response.parallel_faster_than_sequential = (response.total_time < Sum(delays))

\* C3 witness: a success response whose total_time is more than half a
\* hundredth below sum(delays), with the boolean true.
C3_ClearlyFaster ==
  /\ Success
  /\ 2 * (Sum(delays) - response.total_time) > TicksPerCenti
  /\ response.parallel_faster_than_sequential

\* C4 as claimed: with more than one unit and at least two non-zero delays the
\* measured total time is below sum(delays) and the boolean is true, whatever
\* the jitter.
C4_ParallelAlwaysFaster ==
  (Success /\ NonNegativeDelays /\ Len(delays) > 1 /\ Cardinality(NonZeroDelays) >= 2) =>
    /\ total_parallel_time < Sum(delays)
    /\ response.parallel_faster_than_sequential

\* C4 amended: with more than one unit and at least two non-zero delays the
\* measured total time is at least max(delays), and it is below sum(delays),
\* with the boolean true, whenever the lateness of the run is less than
\* sum(delays) - max(delays).
C4_ParallelFasterUnlessLate ==
  (Success /\ NonNegativeDelays /\ Len(delays) > 1 /\ Cardinality(NonZeroDelays) >= 2) =>
    /\ total_parallel_time >= MaxDelayOf
    /\ Lateness < Sum(delays) - MaxDelayOf =>
         /\ total_parallel_time < Sum(delays)
         /\ response.parallel_faster_than_sequential

\* C4 witness: two units of non-zero delay ran late, but by less than
\* sum(delays) - max(delays), and the response says parallel was faster.
C4_FasterDespiteJitter ==
  /\ Success /\ NonNegativeDelays
  /\ Len(delays) > 1 /\ Cardinality(NonZeroDelays) >= 2
  /\ Lateness > 0
  /\ Lateness < Sum(delays) - MaxDelayOf
  /\ response.parallel_faster_than_sequential

\* C5: a request with a negative delay is rejected: no unit of it is run and no
\* success response is produced.
C5_NegativeDelayRejected ==
  SomeNegativeDelay => (NoUnitStarted /\ ~Success)

\* C6: a success response comes only after every unit has completed and carries
\* every unit's result; any other outcome carries no results; a request one of
\* whose units raised ends in an error.
C6_AllOrNothing ==
  /\ Success =>
       /\ \A i \in Units : ustate[i] = "done"
       /\ DOMAIN response.results = 1..Len(numbers)
       /\ \A i \in 1..Len(numbers) : response.results[i].kind = "item"
  /\ ~Success => response = NoResponse
  /\ (pc = "done" /\ \E i \in DOMAIN ustate : ustate[i] = "raised") => outcome = "500"

\* C6 witness: the request failed with no results although one of its units
\* had completed.
C6_FailedWithACompletedUnit ==
  /\ outcome = "500"
  /\ response = NoResponse
  /\ \E i \in Units : ustate[i] = "done"

\* C7: a request with an empty list is rejected by the schema before the
\* handler runs: no start instant is taken, no unit is created, no response is
\* built, and the outcome is the validation error, also when both are empty.
C7_EmptyInputRejectedBySchema ==
  EmptyInput =>
    /\ start_parallel = NoTime
    /\ ustate = <<>>
    /\ response = NoResponse
    /\ pc = "done" => outcome = "422"

\* C7 witness: a request with numbers and no delays has ended in the
\* validation error.
C7_EmptyDelaysRejected ==
  /\ pc = "done" /\ outcome = "422"
  /\ Len(numbers) >= 1 /\ Len(delays) = 0

\* C8: a valid request of one unit gets a single result and the boolean false:
\* the measured total time is never below the one delay.
C8_SingleUnitNotFaster ==
  (Success /\ Len(numbers) = 1 /\ NonNegativeDelays) =>
    /\ DOMAIN response.results = {1}
    /\ total_parallel_time >= delays[1]
    /\ ~response.parallel_faster_than_sequential

\* C8 witness: one unit of non-zero delay, answered with a total time equal to
\* the delay.
C8_SingleUnitEqualTimes ==
  /\ Success /\ Len(numbers) = 1
  /\ delays[1] > 0
  /\ total_parallel_time = delays[1]

\* C9: the boolean is the comparison of the unrounded total time with
\* sum(delays); the rounding goes into the payload's total_time and time
\* fields only.
C9_ComparisonUsesUnroundedTime ==
  Success =>
    /\ response.parallel_faster_than_sequential = (total_parallel_time < Sum(delays))
    /\ response.total_time = Round2(total_parallel_time)
    /\ \A i \in Units : response.results[i].time = Round2(elapsed[i])

\* C9 witness: a success response where the rounded total time compares with
\* sum(delays) the other way than the unrounded one.
C9_RoundingCrossesSum ==
  /\ Success
  /\ (response.total_time < Sum(delays)) # (total_parallel_time < Sum(delays))

\* C10: in a success response with non-negative delays each unit started at or
\* after the request's start instant, its elapsed time is at least its delay,
\* and the total time is at least its elapsed time, rounded as well.
C10_TimingNested ==
  (Success /\ NonNegativeDelays) =>
    \A i \in Units :
      /\ ustart[i] >= start_parallel
      /\ elapsed[i] >= delays[i]
      /\ total_parallel_time >= elapsed[i]
      /\ FinishTime(i) <= start_parallel + total_parallel_time
      /\ response.total_time >= response.results[i].time

\* C10 witness: a unit that overslept and a total time beyond its elapsed time.
C10_StrictlyNested ==
  /\ Success /\ NonNegativeDelays
  /\ \E i \in Units :
       /\ delays[i] > 0
       /\ elapsed[i] > delays[i]
       /\ total_parallel_time > elapsed[i]

====
